---- MODULE Spec2Model ----
(***************************************************************************)
(* Model of scripts/extract-text.py: three extraction adapters             *)
(* (trafilatura, readability, beautifulsoup), the fallback orchestrator     *)
(* extract_text, and the command line driver main.                          *)
(*                                                                          *)
(* Python values are represented as follows.                                *)
(*   Optional[T]   None is <<>>, a present value v is <<v>>                 *)
(*   str (content) a sequence of one-character strings                      *)
(*   str (labels)  a TLA+ string (method names, error messages)             *)
(*   list          a sequence                                               *)
(*   dataclass     a record with the dataclass' fields                      *)
(***************************************************************************)
EXTENDS Integers, Sequences, FiniteSets, TLC

(***************************************************************************)
(* Optional values                                                          *)
(***************************************************************************)
None == <<>>

Some(v) == <<v>>

Get(o) == o[1]

(***************************************************************************)
(* Strings: str.split, str.strip, re.sub(r'\s+', ' ', s), slicing           *)
(***************************************************************************)
Whitespace == {" ", "\t"}

\* len(s.split()): the number of maximal runs of non-whitespace characters
SplitLen(s) ==
    Cardinality({i \in 1..Len(s) :
                    /\ s[i] \notin Whitespace
                    /\ (i = 1 \/ s[i-1] \in Whitespace)})

\* s.lstrip()
LStrip(s) ==
    LET solid == {i \in 1..Len(s) : s[i] \notin Whitespace}
    IN  IF solid = {} THEN <<>>
        ELSE SubSeq(s, CHOOSE i \in solid : \A j \in solid : i <= j, Len(s))

\* s.rstrip()
RStrip(s) ==
    LET solid == {i \in 1..Len(s) : s[i] \notin Whitespace}
    IN  IF solid = {} THEN <<>>
        ELSE SubSeq(s, 1, CHOOSE i \in solid : \A j \in solid : i >= j)

\* s.strip()
Strip(s) == RStrip(LStrip(s))

\* re.sub(r'\s+', ' ', s): every run of whitespace becomes one blank
CollapseWs(s) ==
    LET Kept(i) == s[i] \notin Whitespace \/ i = 1 \/ s[i-1] \notin Whitespace
        keep == SelectSeq([i \in 1..Len(s) |-> i], Kept)
    IN  [k \in 1..Len(keep) |-> IF s[keep[k]] \in Whitespace THEN " " ELSE s[keep[k]]]

\* s[:n]
Prefix(s, n) == SubSeq(s, 1, IF Len(s) < n THEN Len(s) ELSE n)

\* s.startswith(p)
StartsWith(s, p) == Len(s) >= Len(p) /\ SubSeq(s, 1, Len(p)) = p

\* sep.join(parts)
RECURSIVE Join(_, _)
Join(parts, sep) ==
    IF parts = <<>> THEN <<>>
    ELSE IF Len(parts) = 1 THEN parts[1]
    ELSE LET half == Len(parts) \div 2
         IN  Join(SubSeq(parts, 1, half), sep) \o sep
             \o Join(SubSeq(parts, half + 1, Len(parts)), sep)

\* Python truthiness of an Optional[str] / Optional[list]: None and the
\* empty value are both falsy
Truthy(o) == o # None /\ Get(o) # <<>>

(***************************************************************************)
(* Dataclasses                                                              *)
(***************************************************************************)
\* ExtractedMetadata(...) built from a library metadata object
ExtractedMetadata(meta) ==
    [title       |-> meta.title,
     author      |-> meta.author,
     date        |-> meta.date,
     description |-> meta.description,
     sitename    |-> meta.sitename,
     categories  |-> IF meta.categories # <<>> THEN Some(meta.categories) ELSE None,
     tags        |-> IF meta.tags # <<>> THEN Some(meta.tags) ELSE None,
     language    |-> meta.language]

\* ExtractionResult(success=...) with every other field at its default
ExtractionResult(success) ==
    [success         |-> success,
     text            |-> None,
     word_count      |-> 0,
     metadata        |-> None,
     method          |-> None,
     error           |-> None,
     title_extracted |-> None,
     headings        |-> None,
     links           |-> None,
     images          |-> None]

\* ExtractionResult(success=False, error=msg)
Failure(msg) == [ExtractionResult(FALSE) EXCEPT !.error = Some(msg)]

\* Outcome of evaluating a piece of code: it returns a value or raises
Return(v) == [kind |-> "return", val |-> v, msg |-> ""]

Raise(m) == [kind |-> "raise", val |-> ExtractionResult(FALSE), msg |-> m]

(***************************************************************************)
(* Library calls.  A call into trafilatura, readability or bs4 either       *)
(* returns a value or raises an exception carrying a message.               *)
(***************************************************************************)
LibReturn(v) == [kind |-> "return", val |-> Some(v), msg |-> ""]

LibRaise(m) == [kind |-> "raise", val |-> None, msg |-> m]

(***************************************************************************)
(* A parsed document (BeautifulSoup object) is a sequence of element nodes  *)
(* in document order.  Node i has a tag, the index of its parent (0 for a   *)
(* top-level node), its own text (placed before its children), and the      *)
(* attributes id, href, src, alt (each Optional).                           *)
(***************************************************************************)
Indices(dom) == [i \in 1..Len(dom) |-> i]

\* j is i itself or one of i's ancestors
RECURSIVE IsUnder(_, _, _)
IsUnder(dom, i, j) ==
    IF i = j THEN TRUE
    ELSE IF i = 0 THEN FALSE
    ELSE IsUnder(dom, dom[i].parent, j)

UnwantedTags == {"script", "style", "nav", "header", "footer",
                 "aside", "noscript", "iframe", "svg"}

HeadingTags == {"h1", "h2", "h3", "h4", "h5", "h6"}

\* int(h.name[1])
HeadingLevel == [h1 |-> 1, h2 |-> 2, h3 |-> 3, h4 |-> 4, h5 |-> 5, h6 |-> 6]

\* for element in soup.find_all([...]): element.decompose()
\* the nodes that remain: those with no unwanted tag on their ancestor path
RECURSIVE Decomposed(_, _)
Decomposed(dom, i) ==
    i # 0 /\ (dom[i].tag \in UnwantedTags \/ Decomposed(dom, dom[i].parent))

Decompose(dom) == {i \in 1..Len(dom) : ~Decomposed(dom, i)}

\* root.find_all(tags): the remaining descendants of root (0 is the soup
\* itself) with one of the tags, in document order
FindAll(dom, alive, root, tags) ==
    LET Match(i) == /\ i \in alive
                    /\ i # root
                    /\ IsUnder(dom, i, root)
                    /\ dom[i].tag \in tags
    IN  SelectSeq(Indices(dom), Match)

\* root.find(tag)
Find(dom, alive, root, tags) ==
    LET all == FindAll(dom, alive, root, tags)
    IN  IF all = <<>> THEN None ELSE Some(all[1])

\* root.find(id=value)
FindId(dom, alive, root, value) ==
    LET Match(i) == /\ i \in alive
                    /\ i # root
                    /\ IsUnder(dom, i, root)
                    /\ dom[i].id = Some(value)
        all == SelectSeq(Indices(dom), Match)
    IN  IF all = <<>> THEN None ELSE Some(all[1])

\* the stripped, non-empty strings of the nodes idx
MapStrip(dom, idx) ==
    LET NonEmpty(t) == t # <<>>
    IN  SelectSeq([k \in 1..Len(idx) |-> Strip(dom[idx[k]].text)], NonEmpty)

\* root.get_text(separator=sep, strip=True): the strings of root and its
\* remaining descendants, each stripped, empty ones dropped, joined by sep
GetText(dom, alive, root, sep) ==
    LET Match(i) == i \in alive /\ IsUnder(dom, i, root)
    IN  Join(MapStrip(dom, SelectSeq(Indices(dom), Match)), sep)

(***************************************************************************)
(* Lazy imports.  env.installed tells which packages can be imported.       *)
(***************************************************************************)
get_trafilatura(env) == IF env.installed.trafilatura THEN Some("trafilatura") ELSE None

get_beautifulsoup(env) == IF env.installed.bs4 THEN Some("BeautifulSoup") ELSE None

get_readability(env) == IF env.installed.readability THEN Some("Document") ELSE None

\* `import package` inside a get_* function, as a count of load attempts:
\* a package loaded before is served from sys.modules, any other import
\* statement makes the import system try to load the package (a failed
\* load leaves nothing behind, so the next import statement tries again)
ImportAttempts(n, ok) == IF ok /\ n > 0 THEN n ELSE n + 1

\* Catch without the except clause: the exception propagates
Catch_Propagate(prefix, outcome) == outcome

\* try: body  except Exception as e: return ExtractionResult(success=False,
\*                                           error=f"<prefix>{str(e)}")
Catch(prefix, outcome) ==
    IF outcome.kind = "raise" THEN Return(Failure(prefix \o outcome.msg))
    ELSE outcome

(***************************************************************************)
(* Limits                                                                   *)
(***************************************************************************)
MinWords == 50

MaxHeadings == 50

MaxLinks == 500

MaxImages == 100

MaxFieldLen == 200

(***************************************************************************)
(* extract_with_trafilatura                                                 *)
(***************************************************************************)
\* the body of the try block
trafilatura_try(env) ==
    LET ex == env.trafilatura.extract
    IN  IF ex.kind = "raise" THEN Raise(ex.msg)
        ELSE LET text == Get(ex.val)
             IN  IF ~Truthy(text)
                 THEN Return(Failure("trafilatura returned empty"))
                 ELSE LET mo == env.trafilatura.extract_metadata
                      IN  IF mo.kind = "raise" THEN Raise(mo.msg)
                          ELSE LET meta == Get(mo.val)
                               IN  Return([ExtractionResult(TRUE) EXCEPT
                                     !.text = text,
                                     !.word_count = SplitLen(Get(text)),
                                     !.metadata = IF meta # None
                                                  THEN Some(ExtractedMetadata(Get(meta)))
                                                  ELSE None,
                                     !.method = Some("trafilatura"),
                                     !.title_extracted = IF meta # None
                                                         THEN Get(meta).title
                                                         ELSE None])

extract_with_trafilatura(env) ==
    IF get_trafilatura(env) = None
    THEN Return(Failure("trafilatura not installed"))
    ELSE Catch("trafilatura error: ", trafilatura_try(env))

(***************************************************************************)
(* extract_with_beautifulsoup                                               *)
(***************************************************************************)
\* headings.append({'level': int(h.name[1]), 'text': h.get_text(strip=True)[:200]})
Headings(dom, alive) ==
    LET hs == FindAll(dom, alive, 0, HeadingTags)
    IN  [k \in 1..Len(hs) |->
            [level |-> HeadingLevel[dom[hs[k]].tag],
             text  |-> Prefix(GetText(dom, alive, hs[k], <<>>), MaxFieldLen)]]

\* KeepLink without the javascript: test
KeepLink_NoScript(href) ==
    /\ href # <<>>
    /\ ~StartsWith(href, <<"#">>)

\* if href and not href.startswith('#') and not href.startswith('javascript:')
KeepLink(href) ==
    /\ href # <<>>
    /\ ~StartsWith(href, <<"#">>)
    /\ ~StartsWith(href, <<"j", "a", "v", "a", "s", "c", "r", "i", "p", "t", ":">>)

\* Links with the cap applied to the anchors found, before the filter
Links_CapFirst(dom, alive) ==
    LET HasHref(i) == dom[i].href # None
        Keep(i) == KeepLink(Get(dom[i].href))
        as == SelectSeq(Prefix(SelectSeq(FindAll(dom, alive, 0, {"a"}), HasHref),
                               MaxLinks), Keep)
    IN  [k \in 1..Len(as) |->
            [url  |-> Get(dom[as[k]].href),
             text |-> Prefix(GetText(dom, alive, as[k], <<>>), MaxFieldLen)]]

\* for a in soup.find_all('a', href=True): ... links.append({...})
Links(dom, alive) ==
    LET HasHref(i) == dom[i].href # None
        Keep(i) == KeepLink(Get(dom[i].href))
        as == SelectSeq(SelectSeq(FindAll(dom, alive, 0, {"a"}), HasHref), Keep)
    IN  [k \in 1..Len(as) |->
            [url  |-> Get(dom[as[k]].href),
             text |-> Prefix(GetText(dom, alive, as[k], <<>>), MaxFieldLen)]]

\* for img in soup.find_all('img', src=True): images.append({...})
Images(dom, alive) ==
    LET HasSrc(i) == dom[i].src # None
        imgs == SelectSeq(FindAll(dom, alive, 0, {"img"}), HasSrc)
    IN  [k \in 1..Len(imgs) |->
            [url |-> Get(dom[imgs[k]].src),
             alt |-> IF Truthy(dom[imgs[k]].alt)
                     THEN Some(Prefix(Get(dom[imgs[k]].alt), MaxFieldLen))
                     ELSE None]]

\* main text: body's main / article / id=content element, else body, else
\* the whole document
MainText(dom, alive) ==
    LET body == Find(dom, alive, 0, {"body"})
    IN  IF body # None
        THEN LET b == Get(body)
                 m1 == Find(dom, alive, b, {"main"})
                 m2 == Find(dom, alive, b, {"article"})
                 m3 == FindId(dom, alive, b, "content")
                 main == IF m1 # None THEN m1 ELSE IF m2 # None THEN m2 ELSE m3
                 text_source == IF main # None THEN Get(main) ELSE b
             IN  GetText(dom, alive, text_source, <<" ">>)
        ELSE GetText(dom, alive, 0, <<" ">>)

\* the body of the try block
beautifulsoup_try(env) ==
    LET parsed == env.soup
    IN  IF parsed.kind = "raise" THEN Raise(parsed.msg)
        ELSE LET dom == Get(parsed.val)
                 alive == Decompose(dom)
                 title_tag == Find(dom, alive, 0, {"title"})
                 title == IF title_tag # None
                          THEN Some(GetText(dom, alive, Get(title_tag), <<>>))
                          ELSE None
                 text == Strip(CollapseWs(MainText(dom, alive)))
             IN  Return([ExtractionResult(TRUE) EXCEPT
                   !.text = Some(text),
                   !.word_count = SplitLen(text),
                   !.method = Some("beautifulsoup"),
                   !.title_extracted = title,
                   !.headings = Some(Prefix(Headings(dom, alive), MaxHeadings)),
                   !.links = Some(Prefix(Links(dom, alive), MaxLinks)),
                   !.images = Some(Prefix(Images(dom, alive), MaxImages))])

extract_with_beautifulsoup(env) ==
    IF get_beautifulsoup(env) = None
    THEN Return(Failure("beautifulsoup4 not installed"))
    ELSE Catch("beautifulsoup error: ", beautifulsoup_try(env))

(***************************************************************************)
(* extract_with_readability                                                 *)
(***************************************************************************)
\* the body of the try block
readability_try(env) ==
    LET lib == env.readability
    IN  IF lib.document.kind = "raise" THEN Raise(lib.document.msg)
        ELSE IF lib.summary.kind = "raise" THEN Raise(lib.summary.msg)
        ELSE IF lib.title.kind = "raise" THEN Raise(lib.title.msg)
        ELSE IF lib.soup.kind = "raise" THEN Raise(lib.soup.msg)
        ELSE LET dom == Get(lib.soup.val)
                 alive == 1..Len(dom)
                 text == Strip(CollapseWs(GetText(dom, alive, 0, <<" ">>)))
             IN  Return([ExtractionResult(TRUE) EXCEPT
                   !.text = Some(text),
                   !.word_count = SplitLen(text),
                   !.method = Some("readability"),
                   !.title_extracted = Some(Get(lib.title.val))])

extract_with_readability(env) ==
    IF get_readability(env) = None
    THEN Return(Failure("readability-lxml not installed"))
    ELSE IF get_beautifulsoup(env) = None
    THEN Return(Failure("beautifulsoup4 not installed"))
    ELSE Catch("readability error: ", readability_try(env))

(***************************************************************************)
(* extract_text: the gate and the values it moves between                   *)
(***************************************************************************)
\* Passes with the threshold one too high
Passes_Above(r) == r.success /\ r.word_count > MinWords + 1

\* Passes with >= in place of >
Passes_AtLeast(r) == r.success /\ r.word_count >= MinWords

\* result.success and result.word_count > 50
Passes(r) == r.success /\ r.word_count > MinWords

\* LastResort with the word-count gate applied to the last strategy too
LastResort_Gated(r) == r.success /\ r.word_count > MinWords

\* result_bs.success: the last strategy is accepted on success alone
LastResort(r) == r.success

\* dataclasses.asdict on an ExtractedMetadata
asdict_metadata(m) ==
    [title       |-> m.title,
     author      |-> m.author,
     date        |-> m.date,
     description |-> m.description,
     sitename    |-> m.sitename,
     categories  |-> m.categories,
     tags        |-> m.tags,
     language    |-> m.language]

\* dataclasses.asdict on an ExtractionResult (recursing into metadata)
asdict(r) ==
    [success         |-> r.success,
     text            |-> r.text,
     word_count      |-> r.word_count,
     metadata        |-> IF r.metadata # None
                         THEN Some(asdict_metadata(Get(r.metadata)))
                         ELSE None,
     method          |-> r.method,
     error           |-> r.error,
     title_extracted |-> r.title_extracted,
     headings        |-> r.headings,
     links           |-> r.links,
     images          |-> r.images]

(***************************************************************************)
(* Inputs: documents, library behaviours, command lines                     *)
(***************************************************************************)
\* word counts above the gate that the inputs cover: MinWords+1 .. MinWords+MaxOver
MaxOver == 1

\* the word count of the sub-threshold ("partial") texts
PartialWords == 30

\* a text of n words separated by single blanks
Words(n) == [i \in 1..(2 * n - 1) |-> IF i % 2 = 1 THEN "w" ELSE " "]

WordCounts == {1, PartialWords, MinWords} \cup {MinWords + k : k \in 1..MaxOver}

Node(tag, parent, text) ==
    [tag |-> tag, parent |-> parent, text |-> text,
     id |-> None, href |-> None, src |-> None, alt |-> None]

Anchor(parent, href, text) == [Node("a", parent, text) EXCEPT !.href = Some(href)]

Image(parent, src, alt) == [Node("img", parent, <<>>) EXCEPT !.src = Some(src), !.alt = alt]

\* BeautifulSoup('') : no elements at all
EmptyDoc == <<>>

\* <html><body>  </body></html>
BlankDoc == << Node("html", 0, <<>>), Node("body", 1, <<" ", " ">>) >>

\* the hrefs "javascript:void(0)" and "/about"
HrefScript ==
    <<"j", "a", "v", "a", "s", "c", "r", "i", "p", "t", ":",
      "v", "o", "i", "d", "(", "0", ")">>

HrefAbout == <<"/", "a", "b", "o", "u", "t">>

\* a page with a title, navigation, headings, the four kinds of link, images
\* and n words of paragraph text directly in the body
PageDoc(n) ==
    << Node("html", 0, <<>>),
       Node("head", 1, <<>>),
       Node("title", 2, <<" ", "T", " ">>),
       Node("script", 2, <<"x">>),
       Node("body", 1, <<>>),
       Node("nav", 5, <<>>),
       Anchor(6, <<"/", "n">>, <<"n">>),
       Node("h1", 5, <<>>),
       Anchor(8, <<"#">>, <<>>),
       Anchor(5, HrefScript, <<>>),
       Anchor(5, HrefAbout, <<"A", "b", "o", "u", "t">>),
       Anchor(5, <<>>, <<>>),
       Image(5, <<"i">>, Some(<<"A">>)),
       Image(5, <<"j">>, Some(<<>>)),
       Node("p", 5, <<" ">> \o Words(n) \o <<"\t", " ">>),
       Node("footer", 5, <<"f">>) >>

\* a page whose body holds noise and whose <article> holds n words
ArticleDoc(n) ==
    << Node("html", 0, <<>>),
       Node("body", 1, <<"w", " ", "w">>),
       Node("h2", 2, <<"w">>),
       Node("article", 2, <<>>),
       Node("p", 4, Words(n)),
       [Node("div", 2, Words(MinWords + 1)) EXCEPT !.id = Some("content")] >>

\* the cleaned fragment readability's summary() parses to
FragmentDoc(n) ==
    << Node("html", 0, <<>>),
       Node("body", 1, <<>>),
       Node("div", 2, <<" ">> \o Words(n)) >>

Htmls ==
    {LibRaise("parse"), LibReturn(EmptyDoc), LibReturn(BlankDoc)}
    \cup {LibReturn(PageDoc(n)) : n \in {PartialWords, MinWords + 1}}
    \cup {LibReturn(ArticleDoc(n)) : n \in {PartialWords}}

Metas ==
    {[title |-> Some("T"), author |-> None, date |-> None, description |-> None,
      sitename |-> None, categories |-> <<"c">>, tags |-> <<>>, language |-> Some("en")]}

TrafilaturaLibs ==
    {[extract |-> e, extract_metadata |-> m] :
        e \in {LibRaise("boom"), LibReturn(None), LibReturn(Some(<<>>)),
               LibReturn(Some(<<" ">>))}
              \cup {LibReturn(Some(Words(n))) : n \in WordCounts},
        m \in {LibReturn(None)} \cup {LibReturn(Some(x)) : x \in Metas}}
    \cup {[extract |-> LibReturn(Some(Words(PartialWords))),
           extract_metadata |-> LibRaise("meta")]}

ReadabilityLibs ==
    {[document |-> LibReturn("doc"), summary |-> LibReturn("content"),
      title |-> LibReturn("T"), soup |-> d] :
        d \in {LibRaise("parse"), LibReturn(BlankDoc)}
              \cup {LibReturn(FragmentDoc(n)) : n \in WordCounts}}
    \cup {[document |-> LibRaise("empty"), summary |-> LibReturn("content"),
           title |-> LibReturn("T"), soup |-> LibReturn(BlankDoc)],
          [document |-> LibReturn("doc"), summary |-> LibRaise("unparseable"),
           title |-> LibReturn("T"), soup |-> LibReturn(BlankDoc)],
          [document |-> LibReturn("doc"), summary |-> LibReturn("content"),
           title |-> LibRaise("title"), soup |-> LibReturn(BlankDoc)]}

Installs == [trafilatura : BOOLEAN, bs4 : BOOLEAN, readability : BOOLEAN]

\* what the process meets for one HTML input: which packages import, and
\* what each library does with that input
Envs ==
    [installed : Installs, trafilatura : TrafilaturaLibs,
     soup : Htmls, readability : ReadabilityLibs]

(***************************************************************************)
(* Large documents, for the list caps                                       *)
(***************************************************************************)
\* how many elements beyond a cap the large document holds
ExtraItems == 2

\* the number of headings of the large document
ManyHeadings == 120

\* k as three decimal digits
Digits(k) ==
    LET digit == <<"0", "1", "2", "3", "4", "5", "6", "7", "8", "9">>
    IN  <<digit[((k \div 100) % 10) + 1], digit[((k \div 10) % 10) + 1], digit[(k % 10) + 1]>>

\* a page with, in this order: a <nav> holding a heading, a link and an
\* image; h headings numbered 1..h (levels cycling h1..h6); three links
\* the filter drops; a links numbered 1..a; g images numbered 1..g
ListDoc(h, a, g) ==
    << Node("html", 0, <<>>),
       Node("body", 1, <<>>),
       Node("nav", 2, <<>>),
       Node("h1", 3, <<"n", "a", "v">>),
       Anchor(3, <<"/", "n", "a", "v">>, <<"n", "a", "v">>),
       Image(3, <<"n", "a", "v">>, None) >>
    \o [k \in 1..h |-> Node(<<"h1", "h2", "h3", "h4", "h5", "h6">>[((k - 1) % 6) + 1],
                            2, Digits(k))]
    \o << Anchor(2, <<"#">>, <<"x">>),
          Anchor(2, HrefScript, <<"x">>),
          Anchor(2, <<>>, <<"x">>) >>
    \o [k \in 1..a |-> Anchor(2, <<"/">> \o Digits(k), Digits(k))]
    \o [k \in 1..g |-> Image(2, Digits(k), Some(<<"a">>))]

\* the sizes of the documents read: one beyond every cap, one below
ListSizes ==
    {[h |-> ManyHeadings, a |-> MaxLinks + ExtraItems, g |-> MaxImages + ExtraItems],
     [h |-> ExtraItems, a |-> ExtraItems, g |-> ExtraItems]}

ListEnvs ==
    [installed : {i \in Installs : i.trafilatura /\ i.readability},
     trafilatura : {[extract |-> e, extract_metadata |-> LibReturn(None)] :
                      e \in {LibReturn(None), LibReturn(Some(Words(PartialWords))),
                             LibReturn(Some(Words(MinWords + 1)))}},
     soup : {LibRaise("parse")} \cup {LibReturn(ListDoc(z.h, z.a, z.g)) : z \in ListSizes},
     readability : {r \in ReadabilityLibs :
                      r.soup \in {LibRaise("parse"), LibReturn(FragmentDoc(MinWords + 1))}}]

\* parsed command lines
Args ==
    {a \in [stdin : BOOLEAN, file : {None, Some("page.html")},
            output : {"json", "text", "all"}] : ~(a.stdin /\ a.file # None)}

(***************************************************************************)
(* State                                                                    *)
(***************************************************************************)
VARIABLES
    args,                 \* the parsed command line
    env,                  \* Optional: the input read and the libraries' behaviour on it
    pc,                   \* position in main / extract_text
    result,               \* extract_text's local `result` (Optional)
    result_readability,   \* extract_text's local `result_readability` (Optional)
    result_bs,            \* extract_text's local `result_bs` (Optional)
    ret,                  \* main's `result`: what extract_text returned (Optional)
    raised,               \* the function an exception escaped from, or "none"
    calls,                \* the adapters invoked so far, in order
    imports,              \* how often the import system tried to load each package
    stdout,               \* Optional: what main printed
    stderr,               \* Optional: what main wrote to stderr
    exit_code,            \* Optional: the process' exit status
    reset_args,           \* resetdb.py: the parsed command line
    fs,                   \* resetdb.py: the paths that exist on disk
    fs0,                  \* resetdb.py: the paths that existed when the run began
    locked,               \* resetdb.py: the paths whose removal raises
    rpc,                  \* resetdb.py: position in main / reset_database
    typed,                \* resetdb.py: Optional, the line input() read
    response              \* resetdb.py: Optional, the local `response`

extractVars == <<args, env, pc, result, result_readability, result_bs, ret, raised,
                 calls, imports, stdout, stderr, exit_code>>

resetVars == <<reset_args, fs, fs0, locked, rpc, typed, response>>

vars == <<extractVars, resetVars>>

\* resetdb.py has not been started
ResetIdle ==
    /\ reset_args = [archive |-> None, force |-> FALSE, db_only |-> FALSE,
                     nuclear |-> FALSE]
    /\ fs = {}
    /\ fs0 = {}
    /\ locked = {}
    /\ rpc = "idle"
    /\ typed = None
    /\ response = None

Init ==
    /\ args \in Args
    /\ env = None
    /\ pc = "read"
    /\ result = None
    /\ result_readability = None
    /\ result_bs = None
    /\ ret = None
    /\ raised = "none"
    /\ calls = <<>>
    /\ imports = [trafilatura |-> 0, bs4 |-> 0, readability |-> 0]
    /\ stdout = None
    /\ stderr = None
    /\ exit_code = None
    /\ ResetIdle

\* an exception leaves `fn` and nothing catches it: the interpreter prints
\* the traceback and exits with status 1
Crash(fn) ==
    /\ raised' = fn
    /\ pc' = "crashed"
    /\ exit_code' = Some(1)

\* main, "Read HTML": from stdin, from the file, or print help and exit 1;
\* envs is what the input may be
ReadHtmlFrom(envs) ==
    /\ pc = "read"
    /\ IF args.stdin \/ args.file # None
       THEN \E e \in envs, readable \in BOOLEAN :
              IF ~args.stdin /\ ~readable
              THEN /\ Crash("read_text")
                   /\ UNCHANGED <<env, stdout>>
              ELSE /\ env' = Some(e)
                   /\ pc' = "strategy_1"
                   /\ UNCHANGED <<raised, exit_code, stdout>>
       ELSE /\ stdout' = Some([format |-> "help", value |-> None])
            /\ exit_code' = Some(1)
            /\ pc' = "exited"
            /\ UNCHANGED <<env, raised>>
    /\ UNCHANGED resetVars
    /\ UNCHANGED <<args, result, result_readability, result_bs, ret,
                   calls, imports, stderr>>

ReadHtml == ReadHtmlFrom(Envs)

\* the same step reading one of the large documents
ReadListHtml == ReadHtmlFrom(ListEnvs)

\* extract_text, strategy 1: run trafilatura, return its result if it passes
RunPrimary ==
    /\ pc = "strategy_1"
    /\ calls' = Append(calls, "trafilatura")
    /\ imports' = [imports EXCEPT
                      !.trafilatura = ImportAttempts(@, Get(env).installed.trafilatura)]
    /\ LET o == extract_with_trafilatura(Get(env))
       IN  IF o.kind = "raise"
           THEN /\ Crash("extract_with_trafilatura")
                /\ UNCHANGED <<result, ret>>
           ELSE /\ result' = Some(o.val)
                /\ IF Passes(o.val)
                   THEN ret' = Some(o.val) /\ pc' = "output"
                   ELSE ret' = ret /\ pc' = "strategy_2"
                /\ UNCHANGED <<raised, exit_code>>
    /\ UNCHANGED resetVars
    /\ UNCHANGED <<args, env, result_readability, result_bs, stdout, stderr>>

\* extract_text, strategy 2: run readability, return its result if it passes
RunSecondary ==
    /\ pc = "strategy_2"
    /\ calls' = Append(calls, "readability")
    /\ imports' = [imports EXCEPT
                      !.readability = ImportAttempts(@, Get(env).installed.readability),
                      !.bs4 = ImportAttempts(@, Get(env).installed.bs4)]
    /\ LET o == extract_with_readability(Get(env))
       IN  IF o.kind = "raise"
           THEN /\ Crash("extract_with_readability")
                /\ UNCHANGED <<result_readability, ret>>
           ELSE /\ result_readability' = Some(o.val)
                /\ IF Passes(o.val)
                   THEN ret' = Some(o.val) /\ pc' = "output"
                   ELSE ret' = ret /\ pc' = "strategy_3"
                /\ UNCHANGED <<raised, exit_code>>
    /\ UNCHANGED resetVars
    /\ UNCHANGED <<args, env, result, result_bs, stdout, stderr>>

\* extract_text, strategy 3: run beautifulsoup, return its result if it succeeded
RunStructural ==
    /\ pc = "strategy_3"
    /\ calls' = Append(calls, "beautifulsoup")
    /\ imports' = [imports EXCEPT !.bs4 = ImportAttempts(@, Get(env).installed.bs4)]
    /\ LET o == extract_with_beautifulsoup(Get(env))
       IN  IF o.kind = "raise"
           THEN /\ Crash("extract_with_beautifulsoup")
                /\ UNCHANGED <<result_bs, ret>>
           ELSE /\ result_bs' = Some(o.val)
                /\ IF LastResort(o.val)
                   THEN ret' = Some(o.val) /\ pc' = "output"
                   ELSE ret' = ret /\ pc' = "fallback"
                /\ UNCHANGED <<raised, exit_code>>
    /\ UNCHANGED resetVars
    /\ UNCHANGED <<args, env, result, result_readability, stdout, stderr>>

\* FallbackResult reporting the last error instead of the first
FallbackResult_LastError(first, second, third) ==
    IF first.success THEN first ELSE third

\* FallbackResult without the partial-success branch
FallbackResult_NoPartial(first, second, third) ==
    IF first.success THEN third ELSE first

\* FallbackResult handing the partial success back without its method
FallbackResult_Unset(first, second, third) ==
    IF first.success THEN [first EXCEPT !.method = None] ELSE first

\* what extract_text returns once all three strategies were rejected:
\*   if result.success: return result
\*   return result
FallbackResult(first, second, third) ==
    IF first.success THEN first ELSE first

\* extract_text, after strategy 3
ReturnFallback ==
    /\ pc = "fallback"
    /\ ret' = Some(FallbackResult(Get(result), Get(result_readability), Get(result_bs)))
    /\ pc' = "output"
    /\ UNCHANGED resetVars
    /\ UNCHANGED <<args, env, result, result_readability, result_bs, raised,
                   calls, imports, stdout, stderr, exit_code>>

(***************************************************************************)
(* main: output.  print(json.dumps(x)) is recorded as the value x that is   *)
(* serialised: x holds only str, int, bool, None, list and dict values,     *)
(* which JSON represents without loss.                                      *)
(***************************************************************************)
\* TextFailure without the sys.exit(1)
TextFailure_NoExit(chosen) ==
    [stderr |-> "Error: " \o Get(chosen.error), exit_code |-> 0]

\* print(f"Error: {result.error}", file=sys.stderr); sys.exit(1)
TextFailure(chosen) ==
    [stderr |-> "Error: " \o Get(chosen.error), exit_code |-> 1]

\* --output text
OutputText ==
    /\ pc = "output"
    /\ args.output = "text"
    /\ IF Get(ret).success
       THEN /\ stdout' = Some([format |-> "text", value |-> Get(ret).text])
            /\ exit_code' = Some(0)
            /\ UNCHANGED stderr
       ELSE /\ stderr' = Some(TextFailure(Get(ret)).stderr)
            /\ exit_code' = Some(TextFailure(Get(ret)).exit_code)
            /\ UNCHANGED stdout
    /\ pc' = "exited"
    /\ UNCHANGED resetVars
    /\ UNCHANGED <<args, env, result, result_readability, result_bs, ret,
                   raised, calls, imports>>

\* AllResults with 'preferred' taken from the fresh trafilatura run
AllResults_First(chosen, traf, bs, rd) ==
    [trafilatura   |-> asdict(traf),
     beautifulsoup |-> asdict(bs),
     readability   |-> asdict(rd),
     preferred     |-> asdict(traf)]

\* the dict built for --output all from extract_text's result and the three
\* adapters' fresh results
AllResults(chosen, traf, bs, rd) ==
    [trafilatura   |-> asdict(traf),
     beautifulsoup |-> asdict(bs),
     readability   |-> asdict(rd),
     preferred     |-> asdict(chosen)]

\* --output all: run every adapter once more and print all four results
OutputAll ==
    /\ pc = "output"
    /\ args.output = "all"
    /\ calls' = calls \o <<"trafilatura", "beautifulsoup", "readability">>
    /\ imports' = [imports EXCEPT
                      !.trafilatura = ImportAttempts(@, Get(env).installed.trafilatura),
                      !.bs4 = ImportAttempts(ImportAttempts(@, Get(env).installed.bs4),
                                             Get(env).installed.bs4),
                      !.readability = ImportAttempts(@, Get(env).installed.readability)]
    /\ LET t == extract_with_trafilatura(Get(env))
           b == extract_with_beautifulsoup(Get(env))
           r == extract_with_readability(Get(env))
       IN  IF t.kind = "raise"
           THEN Crash("extract_with_trafilatura") /\ UNCHANGED stdout
           ELSE IF b.kind = "raise"
           THEN Crash("extract_with_beautifulsoup") /\ UNCHANGED stdout
           ELSE IF r.kind = "raise"
           THEN Crash("extract_with_readability") /\ UNCHANGED stdout
           ELSE /\ stdout' = Some([format |-> "json",
                                   value |-> AllResults(Get(ret), t.val, b.val, r.val)])
                /\ exit_code' = Some(0)
                /\ pc' = "exited"
                /\ UNCHANGED raised
    /\ UNCHANGED resetVars
    /\ UNCHANGED <<args, env, result, result_readability, result_bs, ret, stderr>>

\* output = asdict(result); if result.metadata: output['metadata'] = asdict(result.metadata)
JsonResult(chosen) ==
    IF chosen.metadata # None
    THEN [asdict(chosen) EXCEPT !.metadata = Some(asdict_metadata(Get(chosen.metadata)))]
    ELSE asdict(chosen)

\* --output json (the default)
OutputJson ==
    /\ pc = "output"
    /\ args.output = "json"
    /\ stdout' = Some([format |-> "json", value |-> JsonResult(Get(ret))])
    /\ exit_code' = Some(0)
    /\ pc' = "exited"
    /\ UNCHANGED resetVars
    /\ UNCHANGED <<args, env, result, result_readability, result_bs, ret,
                   raised, calls, imports, stderr>>

Next ==
    \/ ReadHtml
    \/ RunPrimary
    \/ RunSecondary
    \/ RunStructural
    \/ ReturnFallback
    \/ OutputText
    \/ OutputAll
    \/ OutputJson

Spec == Init /\ [][Next]_vars

\* the program run on the large documents
NextLists ==
    \/ ReadListHtml
    \/ RunPrimary
    \/ RunSecondary
    \/ RunStructural
    \/ ReturnFallback
    \/ OutputText
    \/ OutputAll
    \/ OutputJson

SpecLists == Init /\ [][NextLists]_vars

(***************************************************************************)
(* resetdb.py: paths                                                        *)
(*                                                                          *)
(* A path is a string: the ones below the configuration directory are       *)
(* written relative to it, the development ones relative to the working     *)
(* directory, and the archive is the directory /archive.                    *)
(***************************************************************************)
get_default_db_path == "data/au-archive.db"

get_bootstrap_config_path == "config.json"

get_logs_dir == "logs"

get_maintenance_history_path == "maintenance-history.json"

get_research_browser_dir == "research-browser"

\* config_dir / "data"
DataDir == "data"

\* config_dir / "backups"
BackupsDir == "backups"

\* cwd / "packages" / "desktop"
DevRoot == "packages/desktop"

\* cwd / "packages" / "desktop" / "data"
DevData == "packages/desktop/data"

\* the value of --archive that names the archive on disk
ArchivePath == "/archive"

\* archive / ".cache"
CacheDir == "/archive/.cache"

\* the five archive support directories, in the order the code treats them
ArchiveSupport ==
    <<"/archive/.thumbnails", "/archive/.previews", "/archive/.posters",
      "/archive/.cache/video-proxies", "/archive/_database">>

\* the SQLite journal suffixes
Suffixes == <<"-wal", "-shm">>

\* a file of the data directory, and one of the cache directory, that the
\* script never names
OtherData == "data/other.db"

OtherCache == "/archive/.cache/other"

DevPaths ==
    {DevRoot, DevData, DevData \o "/au-archive.db",
     DevData \o "/au-archive.db-wal", DevData \o "/au-archive.db-shm",
     DevData \o "/config.json", DevData \o "/backups"}

AllPaths ==
    {get_default_db_path, get_default_db_path \o "-wal",
     get_default_db_path \o "-shm", DataDir, OtherData, BackupsDir,
     get_bootstrap_config_path, get_maintenance_history_path, get_logs_dir,
     get_research_browser_dir, CacheDir, OtherCache}
    \cup DevPaths
    \cup {ArchiveSupport[i] : i \in 1..Len(ArchiveSupport)}

\* the directory a path lies in ("" where the model has none)
Parent(p) ==
    CASE p \in {get_default_db_path, get_default_db_path \o "-wal",
                get_default_db_path \o "-shm", OtherData} -> DataDir
      [] p = DevData -> DevRoot
      [] p \in DevPaths \ {DevRoot, DevData} -> DevData
      [] p \in {"/archive/.cache/video-proxies", OtherCache} -> CacheDir
      [] OTHER -> ""

\* the paths inside a directory, at any depth
Below(dir) ==
    {p \in AllPaths : Parent(p) = dir \/ (Parent(p) # "" /\ Parent(Parent(p)) = dir)}

\* any(dir.iterdir())
HasEntries(disk, dir) == \E p \in disk : Parent(p) = dir

\* get_dev_data_dir()
get_dev_data_dir(disk) ==
    IF DevData \in disk \/ DevRoot \in disk THEN Some(DevData) ELSE None

\* remove_file(path, name): unlink if the path exists; a failure is printed
remove_file(disk, lk, path) ==
    IF path \in disk
    THEN IF path \in lk THEN disk ELSE disk \ {path}
    ELSE disk

\* remove_dir(path, name): rmtree if the path exists; a failure is printed
remove_dir(disk, lk, path) ==
    IF path \in disk
    THEN IF path \in lk THEN disk ELSE disk \ ({path} \cup Below(path))
    ELSE disk

\* try: if not any(dir.iterdir()): dir.rmdir()  except Exception: pass
rmdir_if_empty(disk, lk, dir) ==
    IF ~HasEntries(disk, dir) /\ dir \notin lk THEN disk \ {dir} ELSE disk

(***************************************************************************)
(* resetdb.py: confirmation                                                 *)
(***************************************************************************)
\* str.lower() on the letters the inputs are written with
LowerChar(c) ==
    CASE c = "Y" -> "y"
      [] c = "E" -> "e"
      [] c = "S" -> "s"
      [] c = "N" -> "n"
      [] c = "O" -> "o"
      [] OTHER -> c

Lower(s) == [i \in 1..Len(s) |-> LowerChar(s[i])]

\* input(...).strip().lower()
Normalize(line) == Lower(Strip(line))

Confirmed_Prefix(resp) == resp # <<>> /\ resp[1] = "y"

\* not (response not in ("y", "yes"))
Confirmed(resp) == resp \in {<<"y">>, <<"y", "e", "s">>}

(***************************************************************************)
(* resetdb.py: removals                                                     *)
(***************************************************************************)
DbOnlyRemovals_AndConfig(disk, lk) ==
    LET db == get_default_db_path
        dev == get_dev_data_dir(disk)
        d1 == remove_file(disk, lk, db)
        d2 == remove_file(d1, lk, get_bootstrap_config_path)
        d3 == IF db \o Suffixes[1] \in d2
              THEN remove_file(d2, lk, db \o Suffixes[1]) ELSE d2
        d4 == IF db \o Suffixes[2] \in d3
              THEN remove_file(d3, lk, db \o Suffixes[2]) ELSE d3
    IN  IF dev # None
        THEN remove_file(
                 remove_file(
                     remove_file(d4, lk, Get(dev) \o "/au-archive.db"),
                     lk, Get(dev) \o "/au-archive.db" \o Suffixes[1]),
                 lk, Get(dev) \o "/au-archive.db" \o Suffixes[2])
        ELSE d4

\* main, --db-only: "Removing database..." to "Done!"
DbOnlyRemovals(disk, lk) ==
    LET db == get_default_db_path
        dev == get_dev_data_dir(disk)
        d1 == remove_file(disk, lk, db)
        d2 == IF db \o Suffixes[1] \in d1
              THEN remove_file(d1, lk, db \o Suffixes[1]) ELSE d1
        d3 == IF db \o Suffixes[2] \in d2
              THEN remove_file(d2, lk, db \o Suffixes[2]) ELSE d2
    IN  IF dev # None
        THEN remove_file(
                 remove_file(
                     remove_file(d3, lk, Get(dev) \o "/au-archive.db"),
                     lk, Get(dev) \o "/au-archive.db" \o Suffixes[1]),
                 lk, Get(dev) \o "/au-archive.db" \o Suffixes[2])
        ELSE d3

\* reset_database, "[Database]"
DatabaseRemovals(disk, lk) ==
    LET db == get_default_db_path
        d1 == remove_file(disk, lk, db)
        d2 == IF DataDir \in d1
              THEN rmdir_if_empty(
                       remove_file(remove_file(d1, lk, db \o Suffixes[1]),
                                   lk, db \o Suffixes[2]),
                       lk, DataDir)
              ELSE d1
    IN  remove_dir(d2, lk, BackupsDir)

\* reset_database, "[Configuration]" and "[Logs]"
ConfigurationRemovals(disk, lk) ==
    remove_dir(
        remove_file(remove_file(disk, lk, get_bootstrap_config_path),
                    lk, get_maintenance_history_path),
        lk, get_logs_dir)

\* reset_database, "[Development]"
DevelopmentRemovals(disk, lk, dev) ==
    IF dev # None
    THEN LET d1 == remove_file(disk, lk, Get(dev) \o "/au-archive.db")
             d2 == remove_file(d1, lk, Get(dev) \o "/au-archive.db" \o Suffixes[1])
             d3 == remove_file(d2, lk, Get(dev) \o "/au-archive.db" \o Suffixes[2])
             d4 == remove_file(d3, lk, Get(dev) \o "/config.json")
         IN  remove_dir(d4, lk, Get(dev) \o "/backups")
    ELSE disk

\* reset_database, "[Archive Support Files]"; the model's disk holds the
\* archive ArchivePath
ArchiveRemovals(disk, lk, archive_path) ==
    IF archive_path # None /\ Get(archive_path) # ""
    THEN LET d1 == remove_dir(disk, lk, ArchiveSupport[1])
             d2 == remove_dir(d1, lk, ArchiveSupport[2])
             d3 == remove_dir(d2, lk, ArchiveSupport[3])
             d4 == remove_dir(d3, lk, ArchiveSupport[4])
             d5 == remove_dir(d4, lk, ArchiveSupport[5])
         IN  IF CacheDir \in d5 THEN rmdir_if_empty(d5, lk, CacheDir) ELSE d5
    ELSE disk

NuclearRemovals_Always(disk, lk, nuclear) ==
    remove_dir(disk, lk, get_research_browser_dir)

\* reset_database, "[NUCLEAR - Research Browser]"
NuclearRemovals(disk, lk, nuclear) ==
    IF nuclear THEN remove_dir(disk, lk, get_research_browser_dir) ELSE disk

\* reset_database, "Removing files..." to "Reset complete!"; dev_data_dir was
\* looked up when the function began
ResetRemovals(disk, lk, archive_path, nuclear) ==
    LET dev == get_dev_data_dir(disk)
        d1 == DatabaseRemovals(disk, lk)
        d2 == ConfigurationRemovals(d1, lk)
        d3 == DevelopmentRemovals(d2, lk, dev)
        d4 == ArchiveRemovals(d3, lk, archive_path)
    IN  NuclearRemovals(d4, lk, nuclear)

(***************************************************************************)
(* resetdb.py: inputs                                                       *)
(***************************************************************************)
ResetArgs ==
    [archive : {None, Some(""), Some(ArchivePath)}, force : BOOLEAN,
     db_only : BOOLEAN, nuclear : BOOLEAN]

\* the disks the script is started on: every entry lies in an existing
\* directory
Disks ==
    {AllPaths,
     AllPaths \ {OtherData, OtherCache},
     AllPaths \ DevPaths,
     AllPaths \ (DevPaths \ {DevRoot}),
     {DataDir, get_default_db_path, get_bootstrap_config_path,
      get_research_browser_dir},
     {}}

\* the paths whose unlink / rmtree / rmdir fails
Locks == {{}, {get_default_db_path \o "-wal"}, {get_research_browser_dir}}

\* the lines typed at the prompt
Lines ==
    {<<>>, <<"y">>, <<"Y">>, <<"y", "e", "s">>, <<" ", "Y", "E", "S", "\t">>,
     <<"n">>, <<"n", "o">>, <<"y", "e">>, <<"y", "e", "a", "h">>,
     <<"y", " ", "e", "s">>, <<" ">>}

(***************************************************************************)
(* resetdb.py: the run                                                      *)
(***************************************************************************)
InitReset ==
    /\ args = [stdin |-> FALSE, file |-> None, output |-> "json"]
    /\ env = None
    /\ pc = "idle"
    /\ result = None
    /\ result_readability = None
    /\ result_bs = None
    /\ ret = None
    /\ raised = "none"
    /\ calls = <<>>
    /\ imports = [trafilatura |-> 0, bs4 |-> 0, readability |-> 0]
    /\ stdout = None
    /\ stderr = None
    /\ exit_code = None
    /\ reset_args \in ResetArgs
    /\ fs \in Disks
    /\ fs0 = fs
    /\ locked \in Locks
    /\ rpc = "main"
    /\ typed = None
    /\ response = None

\* main: parse the arguments and take the --db-only branch or call
\* reset_database; both print what will be removed and reach their
\* `if not force`
ResetMain ==
    /\ rpc = "main"
    /\ rpc' = IF reset_args.db_only
              THEN IF reset_args.force THEN "remove_db_only" ELSE "confirm_db_only"
              ELSE IF reset_args.force THEN "remove" ELSE "confirm"
    /\ UNCHANGED <<reset_args, fs, fs0, locked, typed, response>>
    /\ UNCHANGED extractVars

\* input(): a line, or EOFError at the end of the input, which nothing catches
ReadResponse(go) ==
    /\ \/ \E line \in Lines :
             /\ typed' = Some(line)
             /\ response' = Some(Normalize(line))
             /\ rpc' = IF Confirmed(Normalize(line)) THEN go ELSE "aborted"
       \/ /\ rpc' = "crashed"
          /\ UNCHANGED <<typed, response>>
    /\ UNCHANGED <<reset_args, fs, fs0, locked>>
    /\ UNCHANGED extractVars

\* main, --db-only: the confirmation
ConfirmDbOnly ==
    /\ rpc = "confirm_db_only"
    /\ ReadResponse("remove_db_only")

\* main, --db-only: the removals
RemoveDbOnly ==
    /\ rpc = "remove_db_only"
    /\ fs' = DbOnlyRemovals(fs, locked)
    /\ rpc' = "done"
    /\ UNCHANGED <<reset_args, fs0, locked, typed, response>>
    /\ UNCHANGED extractVars

\* reset_database: the confirmation
ConfirmReset ==
    /\ rpc = "confirm"
    /\ ReadResponse("remove")

\* reset_database: the removals
RemoveReset ==
    /\ rpc = "remove"
    /\ fs' = ResetRemovals(fs, locked, reset_args.archive, reset_args.nuclear)
    /\ rpc' = "done"
    /\ UNCHANGED <<reset_args, fs0, locked, typed, response>>
    /\ UNCHANGED extractVars

NextReset ==
    \/ ResetMain
    \/ ConfirmDbOnly
    \/ RemoveDbOnly
    \/ ConfirmReset
    \/ RemoveReset

SpecReset == InitReset /\ [][NextReset]_vars

(***************************************************************************)
(* Properties                                                               *)
(***************************************************************************)
\* the three adapters' results on the input that was read
Primary == extract_with_trafilatura(Get(env)).val

Secondary == extract_with_readability(Get(env)).val

Structural == extract_with_beautifulsoup(Get(env)).val

\* extract_text has returned to main
Returned == pc \in {"output", "exited"} /\ ret # None

AdapterNames ==
    {"extract_with_trafilatura", "extract_with_readability", "extract_with_beautifulsoup"}

\* C1: whatever the libraries do (missing, raising, returning nothing,
\* returning text), no exception leaves an adapter or extract_text, every
\* adapter yields an ExtractionResult, the only crash is a failed read of
\* the input file, and what extract_text returns is an ExtractionResult.
C1_NeverThrows ==
    /\ raised \notin AdapterNames
    /\ env # None =>
         /\ extract_with_trafilatura(Get(env)).kind = "return"
         /\ extract_with_readability(Get(env)).kind = "return"
         /\ extract_with_beautifulsoup(Get(env)).kind = "return"
    /\ pc = "crashed" => raised = "read_text"
    /\ pc \in {"output", "exited"} /\ env # None =>
         /\ ret # None
         /\ Get(ret).success \in BOOLEAN
         /\ DOMAIN Get(ret) = DOMAIN ExtractionResult(TRUE)

\* extract_text returned although every backend raised or was missing
C1_Witness ==
    /\ Returned
    /\ Get(env).trafilatura.extract.kind = "raise"
    /\ Get(env).installed.trafilatura
    /\ Get(env).soup.kind = "raise"
    /\ Get(env).installed.bs4
    /\ ~Get(env).installed.readability
    /\ Get(ret).error = Some("trafilatura error: boom")

\* C2: when trafilatura succeeds with more than 50 words, extract_text
\* returns exactly trafilatura's result, whatever the other backends yield.
C2_PrimaryWins ==
    Returned /\ Primary.success /\ Primary.word_count > 50 =>
        /\ Get(ret) = Primary
        /\ Get(ret).method = Some("trafilatura")

\* trafilatura passed the gate while readability would have passed it too
C2_Witness ==
    /\ Returned
    /\ Primary.success /\ Primary.word_count = 51
    /\ Secondary.success /\ Secondary.word_count > 50
    /\ Structural.success
    /\ Get(ret) = Primary

\* C3: when trafilatura fails the gate (failure, or at most 50 words) and
\* readability succeeds with more than 50 words, extract_text returns
\* readability's result.
C3_SecondaryWins ==
    /\ Returned
    /\ ~Primary.success \/ Primary.word_count <= 50
    /\ Secondary.success /\ Secondary.word_count > 50
    => /\ Get(ret) = Secondary
       /\ Get(ret).method = Some("readability")

\* trafilatura succeeded with exactly 50 words and readability was returned
C3_Witness ==
    /\ Returned
    /\ Primary.success /\ Primary.word_count = 50
    /\ Secondary.success /\ Secondary.word_count > 50
    /\ Get(ret).method = Some("readability")

\* C4: when trafilatura and readability both fail the gate and
\* beautifulsoup succeeds, extract_text returns beautifulsoup's result
\* whatever its word count.
C4_StructuralLastResort ==
    /\ Returned
    /\ ~Primary.success \/ Primary.word_count <= 50
    /\ ~Secondary.success \/ Secondary.word_count <= 50
    /\ Structural.success
    => /\ Get(ret) = Structural
       /\ Get(ret).method = Some("beautifulsoup")

\* beautifulsoup's result was returned although trafilatura had succeeded
\* with more (sub-threshold) words
C4_Witness ==
    /\ Returned
    /\ Primary.success /\ Primary.word_count <= 50
    /\ Structural.success /\ Structural.word_count < Primary.word_count
    /\ Get(ret) = Structural

\* C5: when all three adapters fail, extract_text returns a failure whose
\* error is trafilatura's error message.
C5_FirstErrorReported ==
    Returned /\ ~Primary.success /\ ~Secondary.success /\ ~Structural.success =>
        /\ ~Get(ret).success
        /\ Get(ret).error = Primary.error
        /\ Get(ret) = Primary

\* all three failed with three different messages
C5_Witness ==
    /\ Returned
    /\ ~Primary.success /\ ~Secondary.success /\ ~Structural.success
    /\ Primary.error # Secondary.error
    /\ Primary.error # Structural.error
    /\ Get(ret).error = Some("trafilatura returned empty")

\* the partial-success case: trafilatura succeeded with PartialWords words,
\* readability and beautifulsoup both failed
PartialCase ==
    /\ Returned
    /\ Primary.success /\ Primary.word_count = PartialWords
    /\ ~Secondary.success
    /\ ~Structural.success

\* C6 as stated: in the partial-success case extract_text returns
\* trafilatura's result with success = true, the partial word count, and
\* method unset.
C6_MethodUnset ==
    PartialCase =>
        /\ Get(ret) = Primary
        /\ Get(ret).success
        /\ Get(ret).word_count = PartialWords
        /\ Get(ret).method = None

\* C6 amended: in the partial-success case extract_text returns
\* trafilatura's result unchanged, with success = true, the partial word
\* count, and method = "trafilatura" as the adapter set it.
C6_PartialSuccess ==
    PartialCase =>
        /\ Get(ret) = Primary
        /\ Get(ret).success
        /\ Get(ret).word_count = PartialWords
        /\ Get(ret).method = Some("trafilatura")

\* the partial-success case was reached through the fallback step
C6_Witness ==
    /\ PartialCase
    /\ result_bs # None
    /\ Get(ret).text = Some(Words(PartialWords))

\* an adapter result that is a success carrying some text
ProducedText(r) == r.success /\ r.text # None /\ Get(r.text) # <<>>

\* C7: extract_text returns a failure only when none of the adapters it
\* ran in that call produced a success; in particular a sub-threshold
\* readability success is returned when trafilatura and beautifulsoup fail.
C7_SomethingBeatsNothing ==
    Returned /\ ~Get(ret).success =>
        /\ result # None => ~ProducedText(Get(result))
        /\ result_readability # None => ~ProducedText(Get(result_readability))
        /\ result_bs # None => ~ProducedText(Get(result_bs))

\* Every ExtractionResult is well formed: success with a non-empty text and
\* no error, or failure with an error.
WellFormed(r) ==
    \/ r.success /\ r.text # None /\ Get(r.text) # <<>> /\ r.error = None
    \/ ~r.success /\ r.error # None

\* C8: every result returned by extract_text and by each adapter is either
\* a success with non-empty text and no error, or a failure with an error.
C8_SuccessHasText ==
    /\ result # None => WellFormed(Get(result))
    /\ result_readability # None => WellFormed(Get(result_readability))
    /\ result_bs # None => WellFormed(Get(result_bs))
    /\ ret # None => WellFormed(Get(ret))

\* C9: on every path the result extract_text returns has method set
\* exactly when success = true.
C9_MethodIffSuccess ==
    Returned => (Get(ret).method # None <=> Get(ret).success)

\* a sub-threshold trafilatura success came back through the fallback step
C9_Witness ==
    /\ Returned
    /\ result_bs # None
    /\ ~Get(result_bs).success
    /\ Get(ret).success
    /\ Get(ret).method = Some("trafilatura")

\* C10: with --output all, the 'preferred' entry printed is extract_text's
\* return value for that input (as a dict).
C10_PreferredIsExtractText ==
    pc = "exited" /\ args.output = "all" /\ ret # None =>
        /\ stdout # None
        /\ Get(stdout).format = "json"
        /\ Get(stdout).value.preferred = asdict(Get(ret))
        /\ Get(stdout).value.preferred.method = Get(ret).method
        /\ Get(stdout).value.preferred.text = Get(ret).text

\* compare-all output whose preferred entry differs from the trafilatura entry
C10_Witness ==
    /\ pc = "exited"
    /\ args.output = "all"
    /\ ret # None
    /\ Get(stdout).value.preferred.method = Some("beautifulsoup")
    /\ Get(stdout).value.trafilatura.success
    /\ Get(stdout).value.preferred = Get(stdout).value.beautifulsoup

\* C11: a package is loaded at most once per process: once a load has
\* failed the failure is remembered and no later adapter call tries again.
C11_LoadedAtMostOnce ==
    \A lib \in DOMAIN imports : imports[lib] <= 1

\* C12: with --output text and a chosen result with success = false, main
\* writes the result's error message to stderr, prints nothing on stdout
\* and exits with a non-zero status.
C12_TextFailureExitsNonZero ==
    pc = "exited" /\ args.output = "text" /\ ret # None /\ ~Get(ret).success =>
        /\ stderr = Some("Error: " \o Get(Get(ret).error))
        /\ stdout = None
        /\ exit_code # None
        /\ Get(exit_code) # 0

\* a failed extraction was reported in text mode
C12_Witness ==
    /\ pc = "exited"
    /\ args.output = "text"
    /\ ret # None
    /\ ~Get(ret).success
    /\ stderr = Some("Error: trafilatura returned empty")
    /\ exit_code = Some(1)

\* the four stored results: the three adapters' and extract_text's
Results == {r \in {result, result_readability, result_bs, ret} : r # None}

\* the urls of a links list, in order
Urls(links) == [k \in 1..Len(links) |-> links[k].url]

\* no link with an empty, fragment or javascript: url
LinksClean(r) ==
    r.links # None =>
        \A k \in 1..Len(Get(r.links)) :
            LET url == Get(r.links)[k].url
            IN  /\ url # <<>>
                /\ url[1] # "#"
                /\ ~(Len(url) >= 11 /\ SubSeq(url, 1, 11) = SubSeq(HrefScript, 1, 11))

\* the input parses to the page with anchors "#", "javascript:void(0)",
\* "/about" and ""
IsPageDoc ==
    /\ env # None
    /\ Get(env).soup.kind = "return"
    /\ \E n \in {PartialWords, MinWords + 1} : Get(Get(env).soup.val) = PageDoc(n)

\* C13 as stated: no links list holds an empty, fragment or javascript:
\* url, and for the anchors "#", "javascript:void(0)", "/about", "" both
\* the beautifulsoup and the trafilatura adapter's links are just "/about".
C13_LinkFiltering ==
    /\ \A r \in Results : LinksClean(Get(r))
    /\ IsPageDoc /\ result_bs # None /\ Get(result_bs).success =>
         /\ Get(result_bs).links # None
         /\ Urls(Get(Get(result_bs).links)) = <<HrefAbout>>
    /\ IsPageDoc /\ result # None /\ Get(result).success =>
         /\ Get(result).links # None
         /\ Urls(Get(Get(result).links)) = <<HrefAbout>>

\* C13 amended: no links list holds an empty, fragment or javascript: url;
\* for the anchors "#", "javascript:void(0)", "/about", "" the
\* beautifulsoup adapter's links are just "/about", and the trafilatura
\* adapter's result has no links list at all.
C13_StructuralLinkFiltering ==
    /\ \A r \in Results : LinksClean(Get(r))
    /\ IsPageDoc /\ result_bs # None /\ Get(result_bs).success =>
         /\ Get(result_bs).links # None
         /\ Urls(Get(Get(result_bs).links)) = <<HrefAbout>>
    /\ result # None => Get(result).links = None

\* beautifulsoup filtered the page's anchors after a trafilatura success
\* below the gate
C13_Witness ==
    /\ IsPageDoc
    /\ result # None /\ Get(result).success /\ Get(result).links = None
    /\ result_bs # None /\ Get(result_bs).success
    /\ Get(Get(result_bs).links) = <<[url |-> HrefAbout, text |-> <<"A", "b", "o", "u", "t">>]>>
    /\ ret = result_bs

\* min(n, cap)
Capped(n, cap) == IF n < cap THEN n ELSE cap

\* the input parses to the large document of sizes z
IsListDoc(z) ==
    /\ env # None
    /\ Get(env).soup.kind = "return"
    /\ Get(Get(env).soup.val) = ListDoc(z.h, z.a, z.g)

\* C14: headings, links and images, when present, hold at most 50, 500 and
\* 100 entries, and they are the first qualifying elements in document
\* order: of h headings the first min(h, 50), of the links that pass the
\* filter the first 500 (dropped links take no slot), of the images the
\* first 100.
C14_CapsKeepFirst ==
    /\ \A r \in Results :
         /\ Get(r).headings # None => Len(Get(Get(r).headings)) <= 50
         /\ Get(r).links # None => Len(Get(Get(r).links)) <= 500
         /\ Get(r).images # None => Len(Get(Get(r).images)) <= 100
    /\ \A z \in ListSizes :
         IsListDoc(z) /\ result_bs # None /\ Get(result_bs).success =>
           /\ Get(result_bs).headings =
                Some([k \in 1..Capped(z.h, 50) |->
                        [level |-> ((k - 1) % 6) + 1, text |-> Digits(k)]])
           /\ Get(result_bs).links =
                Some([k \in 1..Capped(z.a, 500) |->
                        [url |-> <<"/">> \o Digits(k), text |-> Digits(k)]])
           /\ Get(result_bs).images =
                Some([k \in 1..Capped(z.g, 100) |->
                        [url |-> Digits(k), alt |-> Some(<<"a">>)]])

\* extract_text returned beautifulsoup's result for the large document,
\* every list cut at its cap
C14_Witness ==
    /\ Returned
    /\ ret = result_bs
    /\ \E z \in ListSizes : IsListDoc(z) /\ z.h > 50 /\ z.a > 500 /\ z.g > 100
    /\ Len(Get(Get(ret).headings)) = 50
    /\ Len(Get(Get(ret).links)) = 500
    /\ Len(Get(Get(ret).images)) = 100
    /\ Get(Get(ret).links)[500].url = <<"/", "5", "0", "0">>

\* extract_text is running or has just returned (main has not yet printed)
InExtractText == pc \in {"strategy_1", "strategy_2", "strategy_3", "fallback", "output"}

\* C17: within one extract_text call the adapters run in the order
\* trafilatura, readability, beautifulsoup, each at most once; readability
\* runs only if trafilatura failed the gate, beautifulsoup only if both
\* trafilatura and readability failed it.
C17_OrderedShortCircuit ==
    InExtractText =>
        /\ Len(calls) <= 3
        /\ calls = SubSeq(<<"trafilatura", "readability", "beautifulsoup">>, 1, Len(calls))
        /\ Len(calls) >= 2 => ~(Primary.success /\ Primary.word_count > 50)
        /\ Len(calls) >= 3 => ~(Secondary.success /\ Secondary.word_count > 50)
        /\ pc \in {"fallback", "output"} => Len(calls) >= 1
        /\ pc = "strategy_2" => Len(calls) = 1
        /\ pc = "strategy_3" => Len(calls) = 2

\* all three adapters ran, one after the other, and extract_text returned
C17_Witness ==
    /\ pc = "output"
    /\ calls = <<"trafilatura", "readability", "beautifulsoup">>
    /\ Primary.success /\ Primary.word_count = 50
    /\ Secondary.success /\ Secondary.word_count = 50

(***************************************************************************)
(* resetdb.py                                                               *)
(***************************************************************************)
\* the default database, the dev database and their journal files
DbFiles ==
    {get_default_db_path, get_default_db_path \o "-wal",
     get_default_db_path \o "-shm", DevData \o "/au-archive.db",
     DevData \o "/au-archive.db-wal", DevData \o "/au-archive.db-shm"}

\* the line typed at the prompt, trimmed and lower-cased, is y or yes
SaidYes ==
    /\ typed # None
    /\ Lower(Strip(Get(typed))) \in {<<"y">>, <<"y", "e", "s">>}

\* C15: with --db-only nothing but the default database, the dev database
\* and their -wal/-shm files is ever removed, whatever --archive and
\* --nuclear say: the config file, maintenance history, logs, backups, archive
\* support directories and research browser profile all remain; and when the
\* run is done the database files whose removal did not fail are gone.
C15_DbOnlyFrame ==
    reset_args.db_only =>
        /\ fs \subseteq fs0
        /\ (fs0 \ fs) \subseteq DbFiles
        /\ rpc = "done" => (fs \cap DbFiles) \subseteq locked

C15_Witness ==
    /\ rpc = "done"
    /\ reset_args.db_only /\ reset_args.nuclear
    /\ reset_args.archive = Some(ArchivePath)
    /\ fs0 = AllPaths
    /\ fs = AllPaths \ DbFiles

\* C16: the research browser profile is removed only in a run with --nuclear
\* and without --db-only whose reset was forced or confirmed with y / yes; in
\* every other run it is left as it was.
C16_BrowserProfileOnlyNuclear ==
    (get_research_browser_dir \in fs0 /\ get_research_browser_dir \notin fs) =>
        /\ reset_args.nuclear
        /\ ~reset_args.db_only
        /\ reset_args.force \/ SaidYes

C16_Witness ==
    /\ rpc = "done"
    /\ reset_args.nuclear /\ ~reset_args.db_only /\ ~reset_args.force
    /\ typed = Some(<<" ", "Y", "E", "S", "\t">>)
    /\ get_research_browser_dir \in fs0
    /\ get_research_browser_dir \notin fs

\* C18: without --force, in reset_database and on the --db-only path alike,
\* nothing is removed unless the response, trimmed and lower-cased, is
\* exactly y or yes: after any other response, the empty one included, the
\* run has aborted and the disk is as it was.
C18_ConfirmationRequired ==
    (~reset_args.force /\ ~SaidYes) =>
        /\ fs = fs0
        /\ typed # None => rpc = "aborted"

C18_Witness ==
    /\ ~reset_args.force /\ ~reset_args.db_only
    /\ typed = Some(<<>>)
    /\ rpc = "aborted"
    /\ fs0 = AllPaths
    /\ fs = fs0

====
